---- MODULE Spec2Model ----
(***************************************************************************)
(* Model of fvcci/json-parser: Token::try_from_json (lexical.rs) and the   *)
(* recursive-descent Parser (parsing.rs), and the Reader (lexical.rs).     *)
(* A text is a sequence of                                                 *)
(* one-character strings.  The recursion of the parser is an explicit      *)
(* stack of frames, one per array/object whose loop is running; pc is the  *)
(* place in the code where the call is standing.                           *)
(***************************************************************************)
EXTENDS Integers, Sequences, FiniteSets, TLC

VARIABLES json, gen, pc, tokens, errors, line_number, col_number, stack, ret, result,
          reader

vars == <<json, gen, pc, tokens, errors, line_number, col_number, stack, ret, result,
          reader>>

(***************************************************************************)
(* Characters                                                              *)
(***************************************************************************)
QUOTE == "\""
BACKSLASH == "\\"
NEWLINE == "\n"
CR == "\r"
SPACE == " "
TAB == "\t"
FORMFEED == "\f"

\* a character outside ASCII: one character of a text, two bytes of a str
EACUTE == "U+00E9"

\* char::len_utf8, on the characters the model's texts are made of
len_utf8(c) == IF c = EACUTE THEN 2 ELSE 1

\* str::len: the length of a str in bytes
RECURSIVE str_len(_)
str_len(s) == IF s = <<>> THEN 0 ELSE len_utf8(Head(s)) + str_len(Tail(s))

Digits == {"0", "1", "2", "3", "4", "5", "6", "7", "8", "9"}

\* lexical.rs Token::is_punctuation
PUNCTUATIONS == {",", ":", "{", "}", "[", "]"}

is_punctuation(c) == c \in PUNCTUATIONS

\* char::is_whitespace, on the characters the model's texts are made of
char_is_whitespace(c) == c \in {SPACE, TAB, NEWLINE, CR, FORMFEED}

RECURSIVE Spaces(_)
Spaces(n) == IF n = 0 THEN <<>> ELSE <<SPACE>> \o Spaces(n - 1)

\* the end (exclusive) of the run of ' ' / '\t' that starts at i
RECURSIVE BlankRunEnd(_, _)
BlankRunEnd(s, i) ==
    IF i <= Len(s) /\ s[i] \in {SPACE, TAB} THEN BlankRunEnd(s, i + 1) ELSE i

Flush(toks, cur) == IF cur # <<>> THEN Append(toks, cur) ELSE toks

(***************************************************************************)
(* lexical.rs tokenize_into_strings: the raw units of a text               *)
(***************************************************************************)
RECURSIVE TokenizeLoop(_, _, _, _, _)
TokenizeLoop(s, i, is_in_quotes, cur_token, toks) ==
    IF i > Len(s) THEN Flush(toks, cur_token)
    ELSE LET c == s[i] IN
      IF c = QUOTE
        THEN TokenizeLoop(s, i + 1, ~is_in_quotes, Append(cur_token, c), toks)
      ELSE IF c = BACKSLASH /\ is_in_quotes
        THEN IF i + 1 <= Len(s)
               THEN TokenizeLoop(s, i + 2, is_in_quotes,
                                 cur_token \o <<BACKSLASH, s[i + 1]>>, toks)
               ELSE TokenizeLoop(s, i + 1, is_in_quotes,
                                 Append(cur_token, BACKSLASH), toks)
      ELSE IF ~is_in_quotes /\ (is_punctuation(c) \/ c = NEWLINE \/ c = CR)
        THEN TokenizeLoop(s, i + 1, is_in_quotes, <<>>,
                          Append(Flush(toks, cur_token), <<c>>))
      ELSE IF ~is_in_quotes /\ char_is_whitespace(c)
        THEN LET j == BlankRunEnd(s, i + 1)
             IN TokenizeLoop(s, j, is_in_quotes, <<>>,
                             Append(Flush(toks, cur_token), Spaces(j - i)))
      ELSE TokenizeLoop(s, i + 1, is_in_quotes, Append(cur_token, c), toks)

\* a tokenizer for which the first character opens no quoted span
tokenize_first_quote_closed(possible_json) ==
    IF possible_json = <<>> THEN <<>>
    ELSE TokenizeLoop(possible_json, 2, FALSE, <<possible_json[1]>>, <<>>)

tokenize_into_strings(possible_json) ==
    TokenizeLoop(possible_json, 1, FALSE, <<>>, <<>>)

(***************************************************************************)
(* lexical.rs Token, Token::len, Token::is_whitespace, try_from_token      *)
(***************************************************************************)
TNewLine == [type |-> "NewLine"]
TWhitespace(n) == [type |-> "Whitespace", n |-> n]
TNull == [type |-> "Null"]
TBool(raw) == [type |-> "Bool", raw |-> raw]
TString(raw) == [type |-> "String", raw |-> raw]
TNumber(raw) == [type |-> "Number", raw |-> raw]
TPunctuation(c) == [type |-> "Punctuation", c |-> c]

NoToken == [type |-> "None"]

token_is_whitespace(t) == t.type \in {"NewLine", "Whitespace"}

token_len(t) ==
    CASE t.type = "NewLine" -> 1
      [] t.type = "Whitespace" -> t.n
      [] t.type = "Null" -> 4
      [] t.type = "Bool" -> str_len(t.raw)
      [] t.type = "String" -> str_len(t.raw)
      [] t.type = "Number" -> str_len(t.raw)
      [] t.type = "Punctuation" -> 1

IsPunct(t, c) == t.type = "Punctuation" /\ t.c = c

try_from_token(token) ==
    LET c == token[1] IN
    IF str_len(token) = 1 /\ is_punctuation(c) THEN TPunctuation(c)
    ELSE IF c = SPACE THEN TWhitespace(str_len(token))
    ELSE IF c = NEWLINE THEN TNewLine
    ELSE IF c = "n" /\ token = <<"n", "u", "l", "l">> THEN TNull
    ELSE IF c = "f" /\ token = <<"f", "a", "l", "s", "e">> THEN TBool(token)
    ELSE IF c = "t" /\ token = <<"t", "r", "u", "e">> THEN TBool(token)
    ELSE IF c = QUOTE THEN TString(token)
    ELSE IF c = "-" THEN TNumber(token)
    ELSE IF c \in Digits THEN TNumber(token)
    ELSE NoToken

(***************************************************************************)
(* errors.rs Error / ErrorCode: arg is the char of ...WhileParsing(char)   *)
(* and the text of parsing.rs's InvalidNumber(String), empty otherwise     *)
(***************************************************************************)
Error(code, arg, line, col) == [code |-> code, arg |-> arg, line |-> line, col |-> col]

\* lexical.rs Token::try_from_json: the tokens, or the lexical errors
RECURSIVE TryFromJsonLoop(_, _, _, _, _, _)
TryFromJsonLoop(strs, i, toks, errs, line, col) ==
    IF i > Len(strs) THEN [tokens |-> toks, errors |-> errs]
    ELSE LET token == strs[i]
             nl == token = <<NEWLINE>>
             l1 == IF nl THEN line + 1 ELSE line
             c1 == IF nl THEN 1 ELSE col
             t == try_from_token(token)
         IN IF t # NoToken
              THEN TryFromJsonLoop(strs, i + 1, Append(toks, t), errs,
                                   l1, c1 + str_len(token))
              ELSE TryFromJsonLoop(strs, i + 1, toks,
                                   Append(errs, Error("ExpectedToken", <<>>, l1, c1)),
                                   l1, c1 + str_len(token))

try_from_json(possible_json) ==
    TryFromJsonLoop(tokenize_into_strings(possible_json), 1, <<>>, <<>>, 1, 1)

(***************************************************************************)
(* str::parse::<f64>: [sign] digits [. digits] [e [sign] digits], with at  *)
(* least one digit in the mantissa, or [sign] inf | infinity | nan.  The   *)
(* value is kept as sign, mantissa and decimal exponent, trailing zeros    *)
(* of the mantissa moved into the exponent, so that 10, 1e1 and 10.0 are   *)
(* one number.                                                             *)
(***************************************************************************)
DigitVal(c) ==
    CASE c = "0" -> 0 [] c = "1" -> 1 [] c = "2" -> 2 [] c = "3" -> 3 [] c = "4" -> 4
      [] c = "5" -> 5 [] c = "6" -> 6 [] c = "7" -> 7 [] c = "8" -> 8 [] c = "9" -> 9

RECURSIVE DigitRunEnd(_, _)
DigitRunEnd(s, i) ==
    IF i <= Len(s) /\ s[i] \in Digits THEN DigitRunEnd(s, i + 1) ELSE i

\* the number written by the digits s[i..j-1], continuing acc
RECURSIVE NatOf(_, _, _, _)
NatOf(s, i, j, acc) ==
    IF i >= j THEN acc ELSE NatOf(s, i + 1, j, acc * 10 + DigitVal(s[i]))

RECURSIVE Normalize(_, _)
Normalize(m, e) ==
    IF m = 0 THEN [m |-> 0, e |-> 0]
    ELSE IF m % 10 = 0 THEN Normalize(m \div 10, e + 1)
    ELSE [m |-> m, e |-> e]

Lower(c) ==
    CASE c = "I" -> "i" [] c = "N" -> "n" [] c = "F" -> "f" [] c = "T" -> "t"
      [] c = "Y" -> "y" [] c = "A" -> "a" [] OTHER -> c

LowerSeq(s) == [i \in 1..Len(s) |-> Lower(s[i])]

F64(class, neg, m, e) == [class |-> class, neg |-> neg, m |-> m, e |-> e]

NoF64 == [class |-> "error", neg |-> FALSE, m |-> 0, e |-> 0]

parse_f64(s) ==
    LET signed == Len(s) >= 1 /\ s[1] \in {"-", "+"}
        neg == signed /\ s[1] = "-"
        b == IF signed THEN 2 ELSE 1
        rest == LowerSeq(SubSeq(s, b, Len(s)))
        i1 == DigitRunEnd(s, b)
        dot == i1 <= Len(s) /\ s[i1] = "."
        f0 == IF dot THEN i1 + 1 ELSE i1
        f1 == DigitRunEnd(s, f0)
        ndigits == (i1 - b) + (f1 - f0)
        hasexp == f1 <= Len(s) /\ s[f1] \in {"e", "E"}
        esigned == hasexp /\ f1 + 1 <= Len(s) /\ s[f1 + 1] \in {"-", "+"}
        eneg == esigned /\ s[f1 + 1] = "-"
        e0 == IF esigned THEN f1 + 2 ELSE f1 + 1
        e1 == IF hasexp THEN DigitRunEnd(s, e0) ELSE f1
        expv == IF hasexp THEN NatOf(s, e0, e1, 0) ELSE 0
        mant == NatOf(s, f0, f1, NatOf(s, b, i1, 0))
        norm == Normalize(mant, (IF eneg THEN 0 - expv ELSE expv) - (f1 - f0))
    IN IF Len(s) < b THEN NoF64
       ELSE IF ndigits >= 1 /\ (~hasexp \/ e1 > e0) /\ e1 = Len(s) + 1
         THEN F64("finite", neg /\ norm.m # 0, norm.m, norm.e)
       ELSE IF rest \in {<<"i", "n", "f">>, <<"i", "n", "f", "i", "n", "i", "t", "y">>}
         THEN F64("inf", neg, 0, 0)
       ELSE IF rest = <<"n", "a", "n">> THEN F64("nan", FALSE, 0, 0)
       ELSE NoF64

(***************************************************************************)
(* parsing.rs Value, and Option<Value>                                     *)
(***************************************************************************)
VNull == [type |-> "Null"]
VBool(b) == [type |-> "Bool", b |-> b]
VNumber(n) == [type |-> "Number", n |-> n]
VString(s) == [type |-> "String", s |-> s]
VArray(elements) == [type |-> "Array", elements |-> elements]
VObject(members) == [type |-> "Object", members |-> members]

\* HashMap::new() and HashMap::insert: a later insert of a key replaces the value
EmptyMap == [k \in {} |-> k]
MapInsert(members, key, value) == (key :> value) @@ members

None == [some |-> FALSE]
Some(v) == [some |-> TRUE, v |-> v]

\* a parse_whitespace that skips nothing
parse_whitespace_skipping_nothing(toks, line, col) ==
    [tokens |-> toks, line |-> line, col |-> col]

(***************************************************************************)
(* parsing.rs Parser::parse_whitespace                                     *)
(***************************************************************************)
RECURSIVE parse_whitespace(_, _, _)
parse_whitespace(toks, line, col) ==
    IF toks # <<>> /\ toks[1].type = "NewLine"
      THEN parse_whitespace(Tail(toks), line + 1, 1)
    ELSE IF toks # <<>> /\ toks[1].type = "Whitespace"
      THEN parse_whitespace(Tail(toks), line, col + toks[1].n)
    ELSE [tokens |-> toks, line |-> line, col |-> col]

(***************************************************************************)
(* parsing.rs Parser::parse_string: the unescaped quotes of the span are   *)
(* counted; then self.tokens[1..] is taken whatever the caller consumed    *)
(***************************************************************************)
RECURSIVE num_quotations(_, _)
num_quotations(s, i) ==
    IF i > Len(s) THEN 0
    ELSE IF s[i] = BACKSLASH /\ i + 1 <= Len(s) /\ s[i + 1] = QUOTE
      THEN num_quotations(s, i + 2)
    ELSE IF s[i] = QUOTE THEN 1 + num_quotations(s, i + 1)
    ELSE num_quotations(s, i + 1)

string_value(possible_string) ==
    IF str_len(possible_string) = 1
       \/ num_quotations(possible_string, 1) # 2
       \/ possible_string[Len(possible_string)] # QUOTE
      THEN None
      ELSE Some(VString(SubSeq(possible_string, 2, Len(possible_string) - 1)))

\* panic: the slice self.tokens[1..] of an empty self.tokens
parse_string(toks, errs, line, col, possible_string) ==
    LET r == string_value(possible_string) IN
    [panic |-> toks = <<>>,
     ret |-> r,
     errors |-> IF r.some THEN errs
                ELSE Append(errs, Error("ExpectedDoubleQuote", <<>>, line, col)),
     tokens |-> IF toks = <<>> THEN <<>> ELSE Tail(toks),
     col |-> col + str_len(possible_string)]

\* parsing.rs Parser::parse_number
parse_number(toks, errs, line, col, possible_number) ==
    LET n == parse_f64(possible_number) IN
    [ret |-> IF n.class # "error" THEN Some(VNumber(n)) ELSE None,
     errors |-> IF n.class # "error" THEN errs
                ELSE Append(errs, Error("InvalidNumber", possible_number, line, col)),
     tokens |-> Tail(toks),
     col |-> col + str_len(possible_number)]

\* a parse_until_comma_or_end that skips the whitespace only
until_loop_skipping_nothing(toks, line, col, seen, end) ==
    LET w == parse_whitespace(toks, line, col)
    IN [stop |-> "break", tokens |-> w.tokens, line |-> w.line, col |-> w.col,
        seen |-> seen]

\* parsing.rs Parser::parse_until_comma_or_end, up to its end or to the call of
\* parse_value that follows a ':'
RECURSIVE until_loop(_, _, _, _, _)
until_loop(toks, line, col, seen, end) ==
    LET w == parse_whitespace(toks, line, col) IN
    IF w.tokens = <<>> \/ IsPunct(w.tokens[1], ",") \/ IsPunct(w.tokens[1], end)
      THEN [stop |-> "break", tokens |-> w.tokens, line |-> w.line, col |-> w.col,
            seen |-> seen]
    ELSE IF IsPunct(w.tokens[1], ":")
      THEN [stop |-> "colon", tokens |-> Tail(w.tokens), line |-> w.line,
            col |-> w.col + 1, seen |-> seen]
    ELSE until_loop(Tail(w.tokens), w.line, w.col + token_len(w.tokens[1]), TRUE, end)

(***************************************************************************)
(* The parser as a state machine.  A frame is one running loop of          *)
(* parse_array_elements / parse_object_members: its collection so far and  *)
(* the call of parse_value it is waiting for (phase):                      *)
(*   "elem"     parse_array_elements line 137                              *)
(*   "member"   parse_object_members line 202, the key being frame.key     *)
(*   "discard"  parse_object_members lines 210, 222, 232                   *)
(*   "until"    parse_until_comma_or_end line 392                          *)
(***************************************************************************)
Frame(kind, elements, members, phase, key, seen) ==
    [kind |-> kind, elements |-> elements, members |-> members, phase |-> phase,
     key |-> key, seen |-> seen]

Top == stack[Len(stack)]

Pop == SubSeq(stack, 1, Len(stack) - 1)

SetTop(f) == [stack EXCEPT ![Len(stack)] = f]

EndOf(kind) == IF kind = "array" THEN "]" ELSE "}"

NoResult == [kind |-> "None", value |-> None, errors |-> <<>>]
Ok(v) == [kind |-> "Ok", value |-> Some(v), errors |-> <<>>]
Err(errs) == [kind |-> "Err", value |-> None, errors |-> errs]
Panicked == [kind |-> "Panic", value |-> None, errors |-> <<>>]

Goto(p, toks, errs, line, col, stk, r) ==
    /\ pc' = p
    /\ tokens' = toks
    /\ errors' = errs
    /\ line_number' = line
    /\ col_number' = col
    /\ stack' = stk
    /\ ret' = r
    /\ UNCHANGED <<json, gen, result, reader>>

\* panic!, a failed assert! or an out-of-range slice: the call never returns
Panic ==
    /\ pc' = "panic"
    /\ result' = Panicked
    /\ UNCHANGED <<json, gen, tokens, errors, line_number, col_number, stack, ret,
                   reader>>

\* Parser::parse lines 26-36: tokenize (the ? returns the lexical errors), build
\* the Parser, call parse_value
ParseStart ==
    /\ pc = "parse"
    /\ LET lexed == try_from_json(json) IN
       IF lexed.errors # <<>>
         THEN /\ pc' = "done"
              /\ result' = Err(lexed.errors)
              /\ UNCHANGED <<json, gen, tokens, errors, line_number, col_number,
                             stack, ret, reader>>
         ELSE Goto("value", lexed.tokens, <<>>, 1, 1, <<>>, None)

\* a parse that looks at the value and the remaining tokens only
parse_result_ignoring_errors(value_opt, errs, toks, line, col) ==
    IF ~value_opt.some \/ ~(\A i \in 1..Len(toks) : token_is_whitespace(toks[i]))
      THEN [kind |-> "Err", value |-> [some |-> FALSE],
            errors |-> <<Error("EndOfFileExpected", <<>>, line, col)>>]
    ELSE [kind |-> "Ok", value |-> value_opt, errors |-> <<>>]

\* a parse that adds EndOfFileExpected to the errors of the root value
parse_result_adding_end_of_file(value_opt, errs, toks, line, col) ==
    IF ~value_opt.some \/ ~(\A i \in 1..Len(toks) : token_is_whitespace(toks[i]))
      THEN [kind |-> "Err", value |-> [some |-> FALSE],
            errors |-> Append(errs, Error("EndOfFileExpected", <<>>, line, col))]
    ELSE IF errs # <<>> THEN [kind |-> "Err", value |-> [some |-> FALSE], errors |-> errs]
    ELSE [kind |-> "Ok", value |-> value_opt, errors |-> <<>>]

\* Parser::parse lines 37-47: the Result made of what parse_value left
parse_result(value_opt, errs, toks, line, col) ==
    IF errs # <<>> THEN Err(errs)
    ELSE IF ~value_opt.some \/ ~(\A i \in 1..Len(toks) : token_is_whitespace(toks[i]))
      THEN Err(<<Error("EndOfFileExpected", <<>>, line, col)>>)
    ELSE Ok(value_opt.v)

ParseFinish ==
    /\ pc = "ret"
    /\ stack = <<>>
    /\ pc' = "done"
    /\ result' = parse_result(ret, errors, tokens, line_number, col_number)
    /\ UNCHANGED <<json, gen, tokens, errors, line_number, col_number, stack, ret,
                   reader>>

\* a parse_value that consumes the ',', '}' or ']' it reports
ParseValueConsuming ==
    /\ pc = "value"
    /\ LET w == parse_whitespace(tokens, line_number, col_number)
           t == w.tokens[1]
       IN IF w.tokens = <<>>
            THEN Goto("ret", w.tokens,
                      Append(errors, Error("EndOfFileWhileParsingValue", <<>>, w.line, w.col)),
                      w.line, w.col, stack, None)
          ELSE IF t.type = "Null"
            THEN Goto("ret", Tail(w.tokens), errors, w.line, w.col + 4, stack, Some(VNull))
          ELSE IF t.type = "Bool"
            THEN Goto("ret", Tail(w.tokens), errors, w.line, w.col + str_len(t.raw), stack,
                      Some(VBool(t.raw = <<"t", "r", "u", "e">>)))
          ELSE IF t.type = "String"
            THEN LET r == parse_string(w.tokens, errors, w.line, w.col, t.raw)
                 IN Goto("ret", r.tokens, r.errors, w.line, r.col, stack, r.ret)
          ELSE IF t.type = "Number"
            THEN LET r == parse_number(w.tokens, errors, w.line, w.col, t.raw)
                 IN Goto("ret", r.tokens, r.errors, w.line, r.col, stack, r.ret)
          ELSE IF IsPunct(t, "{")
            THEN Goto("object", w.tokens, errors, w.line, w.col, stack, None)
          ELSE IF IsPunct(t, "[")
            THEN Goto("array", w.tokens, errors, w.line, w.col, stack, None)
          ELSE IF IsPunct(t, ",") \/ IsPunct(t, "}") \/ IsPunct(t, "]")
            THEN Goto("ret", Tail(w.tokens),
                      Append(errors, Error("ExpectedToken", <<>>, w.line, w.col)),
                      w.line, w.col + 1, stack, None)
          ELSE Panic

\* Parser::parse_value
ParseValue ==
    /\ pc = "value"
    /\ LET w == parse_whitespace(tokens, line_number, col_number)
           t == w.tokens[1]
       IN IF w.tokens = <<>>
            THEN Goto("ret", w.tokens,
                      Append(errors, Error("EndOfFileWhileParsingValue", <<>>, w.line, w.col)),
                      w.line, w.col, stack, None)
          ELSE IF t.type = "Null"
            THEN Goto("ret", Tail(w.tokens), errors, w.line, w.col + 4, stack, Some(VNull))
          ELSE IF t.type = "Bool"
            THEN Goto("ret", Tail(w.tokens), errors, w.line, w.col + str_len(t.raw), stack,
                      Some(VBool(t.raw = <<"t", "r", "u", "e">>)))
          ELSE IF t.type = "String"
            THEN LET r == parse_string(w.tokens, errors, w.line, w.col, t.raw)
                 IN Goto("ret", r.tokens, r.errors, w.line, r.col, stack, r.ret)
          ELSE IF t.type = "Number"
            THEN LET r == parse_number(w.tokens, errors, w.line, w.col, t.raw)
                 IN Goto("ret", r.tokens, r.errors, w.line, r.col, stack, r.ret)
          ELSE IF IsPunct(t, "{")
            THEN Goto("object", w.tokens, errors, w.line, w.col, stack, None)
          ELSE IF IsPunct(t, "[")
            THEN Goto("array", w.tokens, errors, w.line, w.col, stack, None)
          ELSE IF IsPunct(t, ",") \/ IsPunct(t, "}") \/ IsPunct(t, "]")
            THEN Goto("ret", w.tokens,
                      Append(errors, Error("ExpectedToken", <<>>, w.line, w.col)),
                      w.line, w.col, stack, None)
          ELSE Panic

\* Parser::parse_array / Parser::parse_object, end being ']' / '}'
parse_open(open, end, next) ==
    IF tokens = <<>> \/ ~IsPunct(tokens[1], open) THEN Panic
    ELSE IF Len(tokens) = 1
      THEN Goto("ret", <<>>,
                Append(errors, Error("EndOfFileWhileParsing", <<end>>, line_number,
                                     col_number + 1)),
                line_number, col_number + 1, stack, None)
    ELSE IF IsPunct(tokens[2], end)
      THEN Goto("ret", Tail(Tail(tokens)), errors, line_number, col_number + 2, stack,
                Some(IF open = "[" THEN VArray(<<>>) ELSE VObject(EmptyMap)))
    ELSE Goto(next, Tail(tokens), errors, line_number, col_number + 1, stack, None)

ParseArray ==
    /\ pc = "array"
    /\ parse_open("[", "]", "array_elements")

ParseObject ==
    /\ pc = "object"
    /\ parse_open("{", "}", "object_members")

\* parse_array_elements lines 122-134 / parse_object_members lines 180-192
parse_sequence(kind, body) ==
    IF tokens = <<>>
      THEN Goto("ret", tokens,
                Append(errors, Error("EndOfFileWhileParsing", <<EndOf(kind)>>,
                                     line_number, col_number)),
                line_number, col_number, stack, None)
      ELSE Goto(body, tokens, errors, line_number, col_number,
                Append(stack, Frame(kind, <<>>, EmptyMap, "none", <<>>, FALSE)), None)

ParseArrayElements ==
    /\ pc = "array_elements"
    /\ parse_sequence("array", "element")

ParseObjectMembers ==
    /\ pc = "object_members"
    /\ parse_sequence("object", "member")

\* parse_array_elements lines 135-137: the head of the loop, to the call
ParseElement ==
    /\ pc = "element"
    /\ LET w == parse_whitespace(tokens, line_number, col_number)
       IN Goto("value", w.tokens, errors, w.line, w.col,
               SetTop([Top EXCEPT !.phase = "elem"]), None)

\* parse_array_elements lines 137-141: the element returned
ElementParsed ==
    /\ pc = "ret"
    /\ stack # <<>>
    /\ Top.phase = "elem"
    /\ Goto("until", tokens, errors, line_number, col_number,
            SetTop([Top EXCEPT !.elements = IF ret.some THEN Append(@, ret.v) ELSE @,
                               !.phase = "none", !.seen = FALSE]),
            None)

\* parse_object_members lines 196-255: the match on the tokens that follow the
\* whitespace.  next is "value" when the arm calls parse_value (with the frame's
\* phase and key), "until" when it does not, "panic" for the arm of the empty
\* slice and for parse_string's slice of an empty self.tokens
MemberArm(next, phase, key, toks, errs, col) ==
    [next |-> next, phase |-> phase, key |-> key, tokens |-> toks, errors |-> errs,
     col |-> col]

\* a match whose arms of the missing and of the non-string key record nothing
member_match_silent_key(toks, errs, line, col) ==
    LET colon2 == Len(toks) >= 2 /\ IsPunct(toks[2], ":")
        key_error == Append(errs, Error("KeyMustBeAString", <<>>, line, col))
    IN IF toks = <<>> THEN MemberArm("panic", "none", <<>>, toks, errs, col)
       ELSE IF toks[1].type = "String" /\ colon2
         THEN LET s == toks[1].raw
                  r == parse_string(Tail(Tail(toks)), errs, line, col + str_len(s) + 1, s)
              IN IF r.panic THEN MemberArm("panic", "none", <<>>, toks, errs, col)
                 ELSE IF r.ret.some
                   THEN MemberArm("value", "member", r.ret.v.s, r.tokens, r.errors, r.col)
                   ELSE MemberArm("value", "discard", <<>>, r.tokens, r.errors, r.col)
       ELSE IF colon2
         THEN MemberArm("value", "discard", <<>>, Tail(Tail(toks)), errs,
                        col + token_len(toks[1]) + 1)
       ELSE IF IsPunct(toks[1], ":")
         THEN MemberArm("value", "discard", <<>>, Tail(toks), errs, col + 1)
       ELSE IF toks[1].type = "String"
         THEN MemberArm("until", "none", <<>>, Tail(toks),
                        Append(errs, Error("ExpectedColon", <<>>, line, col)),
                        col + str_len(toks[1].raw))
       ELSE MemberArm("until", "none", <<>>, Tail(toks), key_error,
                      col + token_len(toks[1]))

\* a match whose arm of the string without ':' records nothing
member_match_silent_colon(toks, errs, line, col) ==
    LET colon2 == Len(toks) >= 2 /\ IsPunct(toks[2], ":")
        key_error == Append(errs, Error("KeyMustBeAString", <<>>, line, col))
    IN IF toks = <<>> THEN MemberArm("panic", "none", <<>>, toks, errs, col)
       ELSE IF toks[1].type = "String" /\ colon2
         THEN LET s == toks[1].raw
                  r == parse_string(Tail(Tail(toks)), errs, line, col + str_len(s) + 1, s)
              IN IF r.panic THEN MemberArm("panic", "none", <<>>, toks, errs, col)
                 ELSE IF r.ret.some
                   THEN MemberArm("value", "member", r.ret.v.s, r.tokens, r.errors, r.col)
                   ELSE MemberArm("value", "discard", <<>>, r.tokens, r.errors, r.col)
       ELSE IF colon2
         THEN MemberArm("value", "discard", <<>>, Tail(Tail(toks)), key_error,
                        col + token_len(toks[1]) + 1)
       ELSE IF IsPunct(toks[1], ":")
         THEN MemberArm("value", "discard", <<>>, Tail(toks), key_error, col + 1)
       ELSE IF toks[1].type = "String"
         THEN MemberArm("until", "none", <<>>, Tail(toks), errs, col + str_len(toks[1].raw))
       ELSE MemberArm("until", "none", <<>>, Tail(toks), key_error,
                      col + token_len(toks[1]))

member_match(toks, errs, line, col) ==
    LET colon2 == Len(toks) >= 2 /\ IsPunct(toks[2], ":")
        key_error == Append(errs, Error("KeyMustBeAString", <<>>, line, col))
    IN IF toks = <<>> THEN MemberArm("panic", "none", <<>>, toks, errs, col)
       ELSE IF toks[1].type = "String" /\ colon2
         THEN LET s == toks[1].raw
                  r == parse_string(Tail(Tail(toks)), errs, line, col + str_len(s) + 1, s)
              IN IF r.panic THEN MemberArm("panic", "none", <<>>, toks, errs, col)
                 ELSE IF r.ret.some
                   THEN MemberArm("value", "member", r.ret.v.s, r.tokens, r.errors, r.col)
                   ELSE MemberArm("value", "discard", <<>>, r.tokens, r.errors, r.col)
       ELSE IF colon2
         THEN MemberArm("value", "discard", <<>>, Tail(Tail(toks)), key_error,
                        col + token_len(toks[1]) + 1)
       ELSE IF IsPunct(toks[1], ":")
         THEN MemberArm("value", "discard", <<>>, Tail(toks), key_error, col + 1)
       ELSE IF toks[1].type = "String"
         THEN MemberArm("until", "none", <<>>, Tail(toks),
                        Append(errs, Error("ExpectedColon", <<>>, line, col)),
                        col + str_len(toks[1].raw))
       ELSE MemberArm("until", "none", <<>>, Tail(toks), key_error,
                      col + token_len(toks[1]))

\* parse_object_members lines 194-255: the head of the loop and the match, to the
\* call of parse_value or to the end of the match
ParseMember ==
    /\ pc = "member"
    /\ LET w == parse_whitespace(tokens, line_number, col_number)
           m == member_match(w.tokens, errors, w.line, w.col)
       IN IF m.next = "panic" THEN Panic
          ELSE Goto(m.next, m.tokens, m.errors, w.line, m.col,
                    SetTop([Top EXCEPT !.phase = m.phase, !.key = m.key, !.seen = FALSE]),
                    None)

\* parse_object_members lines 202-211, 222, 232: the value returned
MemberParsed ==
    /\ pc = "ret"
    /\ stack # <<>>
    /\ Top.phase \in {"member", "discard"}
    /\ Goto("until", tokens, errors, line_number, col_number,
            SetTop([Top EXCEPT !.members = IF Top.phase = "member" /\ ret.some
                                             THEN MapInsert(@, Top.key, ret.v) ELSE @,
                               !.phase = "none", !.key = <<>>, !.seen = FALSE]),
            None)

\* Parser::parse_until_comma_or_end, from its start or from the return of the
\* parse_value it called after a ':'
ParseUntilCommaOrEnd ==
    /\ stack # <<>>
    /\ pc = "until" \/ (pc = "ret" /\ Top.phase = "until")
    /\ LET u == until_loop(tokens, line_number, col_number, Top.seen, EndOf(Top.kind))
       IN IF u.stop = "colon"
            THEN Goto("value", u.tokens, errors, u.line, u.col,
                      SetTop([Top EXCEPT !.phase = "until", !.seen = u.seen]), None)
            ELSE Goto("separator", u.tokens,
                      IF u.seen
                        THEN Append(errors, Error("ExpectedCommaOrEndWhileParsing",
                                                  <<EndOf(Top.kind)>>, u.line, u.col))
                        ELSE errors,
                      u.line, u.col,
                      SetTop([Top EXCEPT !.phase = "none", !.seen = FALSE]), None)

\* Parser::parse_sequence_separator after its parse_whitespace: the match
SeparatorArm(reached_end, toks, errs, col, panic) ==
    [reached_end |-> reached_end, tokens |-> toks, errors |-> errs, col |-> col,
     panic |-> panic]

\* a separator whose arm of ',' followed by the end records nothing
sequence_separator_silent_end(toks, errs, line, col, end) ==
    LET eof == Append(errs, Error("EndOfFileWhileParsing", <<end>>, line, col))
    IN IF toks = <<>> \/ (Len(toks) = 1 /\ IsPunct(toks[1], ","))
         THEN SeparatorArm(TRUE, <<>>, eof, col + Len(toks), FALSE)
       ELSE IF IsPunct(toks[1], ",") /\ IsPunct(toks[2], end)
         THEN SeparatorArm(TRUE, Tail(Tail(toks)), errs, col + 2, FALSE)
       ELSE IF IsPunct(toks[1], ",") THEN SeparatorArm(FALSE, Tail(toks), errs, col + 1, FALSE)
       ELSE IF IsPunct(toks[1], end) THEN SeparatorArm(TRUE, Tail(toks), errs, col + 1, FALSE)
       ELSE IF toks[1].type = "NewLine" THEN SeparatorArm(FALSE, toks, errs, col, TRUE)
       ELSE SeparatorArm(FALSE, toks, eof, col + token_len(toks[1]), FALSE)

\* a separator whose arm of ',' leaves the ',' where it is
sequence_separator_keeping_comma(toks, errs, line, col, end) ==
    LET eof == Append(errs, Error("EndOfFileWhileParsing", <<end>>, line, col))
    IN IF toks = <<>> \/ (Len(toks) = 1 /\ IsPunct(toks[1], ","))
         THEN SeparatorArm(TRUE, <<>>, eof, col + Len(toks), FALSE)
       ELSE IF IsPunct(toks[1], ",") /\ IsPunct(toks[2], end)
         THEN SeparatorArm(TRUE, Tail(Tail(toks)),
                           Append(errs, Error("ExpectedToken", <<>>, line, col + 1)),
                           col + 2, FALSE)
       ELSE IF IsPunct(toks[1], ",") THEN SeparatorArm(FALSE, toks, errs, col + 1, FALSE)
       ELSE IF IsPunct(toks[1], end) THEN SeparatorArm(TRUE, Tail(toks), errs, col + 1, FALSE)
       ELSE IF toks[1].type = "NewLine" THEN SeparatorArm(FALSE, toks, errs, col, TRUE)
       ELSE SeparatorArm(FALSE, toks, eof, col + token_len(toks[1]), FALSE)

\* a separator without the arm of ',' followed by the end: the ',' is taken as
\* any other ',' and the loop goes on
sequence_separator_looping_at_end(toks, errs, line, col, end) ==
    LET eof == Append(errs, Error("EndOfFileWhileParsing", <<end>>, line, col))
    IN IF toks = <<>> \/ (Len(toks) = 1 /\ IsPunct(toks[1], ","))
         THEN SeparatorArm(TRUE, <<>>, eof, col + Len(toks), FALSE)
       ELSE IF IsPunct(toks[1], ",") THEN SeparatorArm(FALSE, Tail(toks), errs, col + 1, FALSE)
       ELSE IF IsPunct(toks[1], end) THEN SeparatorArm(TRUE, Tail(toks), errs, col + 1, FALSE)
       ELSE IF toks[1].type = "NewLine" THEN SeparatorArm(FALSE, toks, errs, col, TRUE)
       ELSE SeparatorArm(FALSE, toks, eof, col + token_len(toks[1]), FALSE)

sequence_separator(toks, errs, line, col, end) ==
    LET eof == Append(errs, Error("EndOfFileWhileParsing", <<end>>, line, col))
    IN IF toks = <<>> \/ (Len(toks) = 1 /\ IsPunct(toks[1], ","))
         THEN SeparatorArm(TRUE, <<>>, eof, col + Len(toks), FALSE)
       ELSE IF IsPunct(toks[1], ",") /\ IsPunct(toks[2], end)
         THEN SeparatorArm(TRUE, Tail(Tail(toks)),
                           Append(errs, Error("ExpectedToken", <<>>, line, col + 1)),
                           col + 2, FALSE)
       ELSE IF IsPunct(toks[1], ",") THEN SeparatorArm(FALSE, Tail(toks), errs, col + 1, FALSE)
       ELSE IF IsPunct(toks[1], end) THEN SeparatorArm(TRUE, Tail(toks), errs, col + 1, FALSE)
       ELSE IF toks[1].type = "NewLine" THEN SeparatorArm(FALSE, toks, errs, col, TRUE)
       ELSE SeparatorArm(FALSE, toks, eof, col + token_len(toks[1]), FALSE)

\* Parser::parse_sequence_separator as parse_array_elements lines 143-149 and
\* parse_object_members lines 259-265 call it: the loop breaks and returns the
\* collection, or goes to its next iteration
ParseSequenceSeparator ==
    /\ pc = "separator"
    /\ LET w == parse_whitespace(tokens, line_number, col_number)
           a == sequence_separator(w.tokens, errors, w.line, w.col, EndOf(Top.kind))
       IN IF a.panic THEN Panic
          ELSE IF a.reached_end
            THEN Goto("ret", a.tokens, a.errors, w.line, a.col, Pop,
                      Some(IF Top.kind = "array" THEN VArray(Top.elements)
                           ELSE VObject(Top.members)))
          ELSE Goto(IF Top.kind = "array" THEN "element" ELSE "member",
                    a.tokens, a.errors, w.line, a.col, stack, None)

\* a second call of Parser::parse, with the text gen.again;
\* the outcome of the first call is kept in gen.first
ParseAgain ==
    /\ pc \in {"done", "panic"}
    /\ gen.family = "respaced"
    /\ gen.round = 1
    /\ json' = gen.again
    /\ gen' = [gen EXCEPT !.round = 2, !.first = result]
    /\ pc' = "parse"
    /\ tokens' = <<>>
    /\ errors' = <<>>
    /\ line_number' = 1
    /\ col_number' = 1
    /\ stack' = <<>>
    /\ ret' = None
    /\ result' = NoResult
    /\ UNCHANGED reader

Next ==
    \/ ParseStart
    \/ ParseValue
    \/ ParseArray
    \/ ParseArrayElements
    \/ ParseElement
    \/ ElementParsed
    \/ ParseObject
    \/ ParseObjectMembers
    \/ ParseMember
    \/ MemberParsed
    \/ ParseUntilCommaOrEnd
    \/ ParseSequenceSeparator
    \/ ParseFinish
    \/ ParseAgain

(***************************************************************************)
(* lexical.rs Reader: a cursor over the characters of a text (chars is the *)
(* index of the next character), the buffer of classification results that *)
(* were read and not yet handed out, and the position (line, col).         *)
(* panic names the panic! or assert! that ended a call, "none" otherwise.  *)
(* last is the latest call and what it returned; delivered is what the     *)
(* calls of next have returned so far.  Parser::parse builds no Reader.    *)
(***************************************************************************)
NoReader == <<>>

NoCall == [op |-> "new", n |-> 0, out |-> <<>>]

\* Reader::new
Reader_new ==
    [chars |-> 1, buffer |-> <<>>, line |-> 1, col |-> 1, panic |-> "none",
     last |-> NoCall, delivered |-> <<>>]

\* Result<Token, Error>
ROk(t) == [ok |-> TRUE, token |-> t]
RErr(e) == [ok |-> FALSE, error |-> e]

\* Reader::create_error
create_error(r, code) == Error(code, <<>>, r.line, r.col)

\* Token::try_from_token(&cur_token).ok_or(self.create_error(ExpectedToken))
token_or_error(r, cur_token) ==
    LET t == try_from_token(cur_token)
    IN IF t # NoToken THEN ROk(t) ELSE RErr(create_error(r, "ExpectedToken"))

\* Reader::read_whitespace: the whitespace that follows the character read_in
\* has just taken
RECURSIVE read_whitespace(_, _)
read_whitespace(s, r) ==
    IF r.chars > Len(s) \/ ~char_is_whitespace(s[r.chars]) THEN r
    ELSE LET c == s[r.chars] IN
      IF c \in {NEWLINE, CR}
        THEN read_whitespace(s, [r EXCEPT !.line = @ + 1, !.col = 1, !.chars = @ + 1])
      ELSE IF c \in {SPACE, TAB}
        THEN read_whitespace(s, [r EXCEPT !.col = @ + 1, !.chars = @ + 1])
      ELSE [r EXCEPT !.panic = "read_whitespace"]

\* the punctuation arm of read_in, lines 137-148
ReadInPunctuation(r, c, cur_token) ==
    IF cur_token = <<>>
      THEN [r EXCEPT !.buffer = Append(@, ROk(TPunctuation(c)))]
    ELSE [r EXCEPT !.buffer = @ \o <<token_or_error(r, cur_token), ROk(TPunctuation(c))>>]

\* a whitespace arm that keeps the run as a Whitespace unit
ReadInWhitespaceKeepingRun(s, r, cur_token) ==
    LET flushed == IF cur_token # <<>>
                     THEN [r EXCEPT !.buffer = Append(@, token_or_error(r, cur_token))]
                     ELSE r
        w == read_whitespace(s, flushed)
    IN [w EXCEPT !.buffer = Append(@, ROk(TWhitespace(w.chars - r.chars + 1)))]

\* the whitespace arm of read_in, lines 149-158
ReadInWhitespace(s, r, cur_token) ==
    read_whitespace(s, IF cur_token # <<>>
                         THEN [r EXCEPT !.buffer = Append(@, token_or_error(r, cur_token))]
                         ELSE r)

\* read_in lines 170-182, after the loop
ReadInEnd(r, num_tokens, cur_token) ==
    IF ~(r.buffer = <<>> \/ Len(r.buffer) - 1 <= num_tokens)
      THEN [r EXCEPT !.panic = "assert_170"]
    ELSE IF cur_token # <<>>
      THEN IF ~(Len(r.buffer) < num_tokens)
             THEN [r EXCEPT !.panic = "assert_172"]
             ELSE [r EXCEPT !.buffer = Append(@, token_or_error(r, cur_token))]
    ELSE r

\* read_in lines 131-168, the loop over the characters
RECURSIVE ReadInLoop(_, _, _, _, _)
ReadInLoop(s, r, num_tokens, is_in_quotes, cur_token) ==
    IF r.chars > Len(s) THEN ReadInEnd(r, num_tokens, cur_token)
    ELSE LET c == s[r.chars]
             taken == [r EXCEPT !.chars = @ + 1]
             quotes == IF c = QUOTE THEN ~is_in_quotes ELSE is_in_quotes
             r1 == IF c = QUOTE THEN taken
                   ELSE IF is_punctuation(c) /\ ~is_in_quotes
                     THEN ReadInPunctuation(taken, c, cur_token)
                   ELSE IF ~is_in_quotes /\ char_is_whitespace(c)
                     THEN ReadInWhitespace(s, taken, cur_token)
                   ELSE taken
             cur == IF c = QUOTE THEN Append(cur_token, QUOTE)
                    ELSE IF ~is_in_quotes /\ (is_punctuation(c) \/ char_is_whitespace(c))
                      THEN <<>>
                    ELSE Append(cur_token, c)
             r2 == [r1 EXCEPT !.col = @ + 1]
         IN IF r1.panic # "none" THEN r1
            ELSE IF Len(r2.buffer) >= num_tokens THEN ReadInEnd(r2, num_tokens, cur)
            ELSE ReadInLoop(s, r2, num_tokens, quotes, cur)

\* Reader::read_in
read_in(s, r, num_tokens) ==
    IF Len(r.buffer) >= num_tokens THEN r
    ELSE ReadInLoop(s, r, num_tokens, FALSE, <<>>)

\* ..min(self.buffer.len(), num_tokens)
UpTo(buffer, num_tokens) ==
    IF Len(buffer) <= num_tokens THEN Len(buffer) ELSE num_tokens

ReaderIdle == <<json, gen, pc, tokens, errors, line_number, col_number, stack, ret, result>>

\* Reader::next: what the Reader is after the call
Next_(s, r, num_tokens) ==
    LET r1 == read_in(s, r, num_tokens)
        k == UpTo(r1.buffer, num_tokens)
        out == SubSeq(r1.buffer, 1, k)
    IN IF r1.panic # "none"
         THEN [r1 EXCEPT !.last = [op |-> "next", n |-> num_tokens, out |-> <<>>]]
       ELSE [r1 EXCEPT !.buffer = SubSeq(@, k + 1, Len(@)),
                       !.last = [op |-> "next", n |-> num_tokens, out |-> out],
                       !.delivered = @ \o out]

\* Reader::peek: what the Reader is after the call
Peek_(s, r, num_tokens) ==
    LET r1 == read_in(s, r, num_tokens)
        out == SubSeq(r1.buffer, 1, UpTo(r1.buffer, num_tokens))
    IN IF r1.panic # "none"
         THEN [r1 EXCEPT !.last = [op |-> "peek", n |-> num_tokens, out |-> <<>>]]
       ELSE [r1 EXCEPT !.last = [op |-> "peek", n |-> num_tokens, out |-> out]]

ReaderNext(num_tokens) ==
    /\ pc = "reader"
    /\ reader.panic = "none"
    /\ reader' = Next_(json, reader, num_tokens)
    /\ UNCHANGED ReaderIdle

ReaderPeek(num_tokens) ==
    /\ pc = "reader"
    /\ reader.panic = "none"
    /\ reader' = Peek_(json, reader, num_tokens)
    /\ UNCHANGED ReaderIdle

(***************************************************************************)
(* The texts parse is called with.  Each comes from one family:            *)
(*   raw      any concatenation of at most MaxRaw lexemes                  *)
(*   tree     a JSON value of at most MaxNodes nodes, written in a style   *)
(*   unclosed a non-empty array/object text without its closing delimiter, *)
(*            with or without a trailing ','                               *)
(*   single   one literal between two paddings                             *)
(*   blank    at most MaxBlank whitespace characters                       *)
(*   commas   '[' k commas ']'                                             *)
(*   junk     an array/object of one element followed by a run of units    *)
(*            that are neither ',' nor the closing delimiter               *)
(*   mixed    a text with one grammatical defect, written before or after  *)
(*            a unit that is no token                                      *)
(*   trailing a non-empty array/object text with a ',' written just before *)
(*            its closing delimiter                                        *)
(*   unicode  a string that holds a character outside ASCII, alone or as   *)
(*            the first element of an array                                *)
(*   respaced a JSON value of at most MaxRespaced nodes written in one     *)
(*            style and then, for a second call of parse, in another; the  *)
(*            styles differ by whitespace next to punctuation only         *)
(* gen records the family and what the text was written from: it is the    *)
(* reference the results are compared with.                                *)
(***************************************************************************)
MaxRaw == 3
MaxNodes == 3
MaxUnclosed == 2
MaxStr == 4
MaxBlank == 2
MaxCommas == 3
MaxJunk == 2
MaxRespaced == 2

RECURSIVE Concat(_)
Concat(ss) == IF ss = <<>> THEN <<>> ELSE Head(ss) \o Concat(Tail(ss))

NullText == <<"n", "u", "l", "l">>
TrueText == <<"t", "r", "u", "e">>
FalseText == <<"f", "a", "l", "s", "e">>

\* number literals with the numbers they denote
NumLit(raw, neg, m, e) == [raw |-> raw, value |-> VNumber(F64("finite", neg, m, e))]
One == NumLit(<<"1">>, FALSE, 1, 0)
NumLits ==
    {One,
     NumLit(<<"0">>, FALSE, 0, 0),
     NumLit(<<"1", "2", "3", "2", "1">>, FALSE, 12321, 0),
     NumLit(<<"-", "1">>, TRUE, 1, 0),
     NumLit(<<"1", ".", "5">>, FALSE, 15, -1),
     NumLit(<<"2", "0">>, FALSE, 2, 1),
     NumLit(<<"2", "e", "1">>, FALSE, 2, 1),
     NumLit(<<"-", "2", ".", "5", "0", "E", "+", "2">>, TRUE, 25, 1)}

RawLexemes ==
    {NullText, <<QUOTE, "a", QUOTE>>, <<QUOTE, "a", QUOTE, "a">>, <<"1">>, <<"-">>,
     <<",">>, <<":">>, <<"{">>, <<"}">>, <<"[">>, <<"]">>, <<SPACE>>, <<NEWLINE>>}

RECURSIVE RawTexts(_)
RawTexts(n) ==
    IF n = 0 THEN {<<>>}
    ELSE LET shorter == RawTexts(n - 1)
         IN shorter \cup {t \o l : t \in shorter, l \in RawLexemes}

\* generator trees: an object is the sequence of its members as written
GNull == [g |-> "null"]
GBool(b) == [g |-> "bool", b |-> b]
GNum(lit) == [g |-> "num", lit |-> lit]
GStr(s) == [g |-> "str", s |-> s]
GArr(items) == [g |-> "arr", items |-> items]
GObj(items) == [g |-> "obj", items |-> items]

TreeKeys == {<<"a">>, <<"b">>}

TreeLeaves == {GNull, GNum(One), GStr(<<"a">>), GArr(<<>>), GObj(<<>>)}

RECURSIVE TreesOfSize(_), Forests(_), MemberForests(_)
TreesOfSize(n) ==
    IF n = 1 THEN TreeLeaves
    ELSE {GArr(f) : f \in Forests(n - 1)} \cup {GObj(f) : f \in MemberForests(n - 1)}

Forests(n) ==
    IF n = 0 THEN {<<>>}
    ELSE UNION {{<<t>> \o f : t \in TreesOfSize(a), f \in Forests(n - a)} : a \in 1..n}

MemberForests(n) ==
    IF n = 0 THEN {<<>>}
    ELSE UNION {{<<[key |-> k, val |-> t]>> \o f :
                    k \in TreeKeys, t \in TreesOfSize(a), f \in MemberForests(n - a)} :
                a \in 1..n}

Trees == UNION {TreesOfSize(n) : n \in 1..MaxNodes}

\* the non-empty arrays and objects of at most MaxUnclosed elements' nodes
OpenTrees == UNION {TreesOfSize(n + 1) : n \in 1..MaxUnclosed}

\* the whitespace a style writes: after an opening delimiter that has content,
\* before a closing one that has content, inside an empty pair, before and after
\* ',' and ':', before and after the whole text
Styles == {"compact", "colon", "wide", "lines"}

Pad(style, place, depth) ==
    CASE style = "compact" -> <<>>
      [] style = "colon" -> IF place \in {"after,", "after:"} THEN <<SPACE>> ELSE <<>>
      [] style = "wide" -> <<SPACE>>
      [] style = "inside" -> IF place \in {"open", "close", "empty"} THEN <<SPACE>> ELSE <<>>
      [] style = "lines" ->
           IF place \in {"open", "after,"} THEN <<NEWLINE>> \o Spaces(depth + 1)
           ELSE IF place = "close" THEN <<NEWLINE>> \o Spaces(depth)
           ELSE IF place = "after:" THEN <<SPACE>>
           ELSE IF place \in {"lead", "trail"} THEN <<NEWLINE>>
           ELSE <<>>

RECURSIVE RenderTree(_, _, _), RenderItems(_, _, _, _)
RenderTree(t, style, depth) ==
    CASE t.g = "null" -> NullText
      [] t.g = "bool" -> IF t.b THEN TrueText ELSE FalseText
      [] t.g = "num" -> t.lit.raw
      [] t.g = "str" -> <<QUOTE>> \o t.s \o <<QUOTE>>
      [] t.g \in {"arr", "obj"} ->
           LET open == IF t.g = "arr" THEN "[" ELSE "{"
               close == IF t.g = "arr" THEN "]" ELSE "}"
           IN IF t.items = <<>>
                THEN <<open>> \o Pad(style, "empty", depth) \o <<close>>
                ELSE <<open>> \o Pad(style, "open", depth)
                     \o RenderItems(t.g, t.items, style, depth + 1)
                     \o Pad(style, "close", depth) \o <<close>>

RenderItems(g, items, style, depth) ==
    LET it == Head(items)
        one == IF g = "arr" THEN RenderTree(it, style, depth)
               ELSE <<QUOTE>> \o it.key \o <<QUOTE>> \o Pad(style, "before:", depth)
                    \o <<":">> \o Pad(style, "after:", depth)
                    \o RenderTree(it.val, style, depth)
    IN IF Len(items) = 1 THEN one
       ELSE one \o Pad(style, "before,", depth) \o <<",">>
            \o Pad(style, "after,", depth - 1) \o RenderItems(g, Tail(items), style, depth)

Render(t, style) ==
    Pad(style, "lead", 0) \o RenderTree(t, style, 0) \o Pad(style, "trail", 0)

\* the Value a generator tree denotes: array elements in order, an object as the
\* map of its keys, each to the value of the last member written with that key
RECURSIVE Ref(_)
Ref(t) ==
    CASE t.g = "null" -> VNull
      [] t.g = "bool" -> VBool(t.b)
      [] t.g = "num" -> t.lit.value
      [] t.g = "str" -> VString(t.s)
      [] t.g = "arr" -> VArray([i \in 1..Len(t.items) |-> Ref(t.items[i])])
      [] t.g = "obj" ->
           LET keys == {t.items[i].key : i \in 1..Len(t.items)}
               last(k) == CHOOSE i \in 1..Len(t.items) :
                              /\ t.items[i].key = k
                              /\ \A j \in (i + 1)..Len(t.items) : t.items[j].key # k
           IN VObject([k \in keys |-> Ref(t.items[last(k)].val)])

\* single literals: the text of a string is any body of at most MaxStr
\* characters between two quotes
StrChars == {"a", ",", BACKSLASH, QUOTE}

RECURSIVE StrBodies(_)
StrBodies(n) ==
    IF n = 0 THEN {<<>>}
    ELSE LET shorter == StrBodies(n - 1)
         IN shorter \cup {b \o <<c>> : b \in shorter, c \in StrChars}

SingleLits ==
    {[kind |-> "null", raw |-> NullText, value |-> VNull],
     [kind |-> "bool", raw |-> TrueText, value |-> VBool(TRUE)],
     [kind |-> "bool", raw |-> FalseText, value |-> VBool(FALSE)],
     [kind |-> "array", raw |-> <<"[", "]">>, value |-> VArray(<<>>)],
     [kind |-> "object", raw |-> <<"{", "}">>, value |-> VObject(EmptyMap)]}
    \cup {[kind |-> "number", raw |-> l.raw, value |-> l.value] : l \in NumLits}
    \cup {[kind |-> "string", raw |-> <<QUOTE>> \o b \o <<QUOTE>>, value |-> VString(b)] :
            b \in StrBodies(MaxStr)}

Paddings == {<<>>, <<SPACE>>, <<NEWLINE, TAB, SPACE>>}

\* junk runs: each unit is written after a space, so that two literals stay two units
JunkUnits(kind) ==
    {NullText, <<QUOTE, "a", QUOTE>>, <<"1">>, <<":">>, <<"{">>, <<"[">>,
     IF kind = "array" THEN <<"}">> ELSE <<"]">>}

RECURSIVE JunkRuns(_, _)
JunkRuns(kind, n) ==
    IF n = 0 THEN {<<>>}
    ELSE LET shorter == JunkRuns(kind, n - 1)
         IN shorter \cup {r \o <<u>> : r \in shorter, u \in JunkUnits(kind)}

RECURSIVE RenderRun(_)
RenderRun(run) ==
    IF run = <<>> THEN <<>> ELSE <<SPACE>> \o Head(run) \o RenderRun(Tail(run))

JunkText(kind, run) ==
    (IF kind = "array" THEN <<"[", "1">> ELSE <<"{", QUOTE, "a", QUOTE, ":", SPACE, "1">>)
    \o RenderRun(run) \o <<EndOf(kind)>>

WhitespaceChars == {SPACE, TAB, NEWLINE, CR, FORMFEED}

RECURSIVE BlankTexts(_)
BlankTexts(n) ==
    IF n = 0 THEN {<<>>}
    ELSE LET shorter == BlankTexts(n - 1)
         IN shorter \cup {t \o <<c>> : t \in shorter, c \in WhitespaceChars}

RECURSIVE Commas(_)
Commas(k) == IF k = 0 THEN <<>> ELSE <<",">> \o Commas(k - 1)

\* texts of tokens with one grammatical defect, and the code of its diagnostic
Defects ==
    {[text |-> <<"[", "1", SPACE, "1", "]">>, code |-> "ExpectedCommaOrEndWhileParsing"],
     [text |-> <<"[", "1">>, code |-> "EndOfFileWhileParsing"],
     [text |-> <<"{", QUOTE, "a", QUOTE, "}">>, code |-> "ExpectedColon"],
     [text |-> <<"{", "1", ":", SPACE, "1", "}">>, code |-> "KeyMustBeAString"]}

\* units that are no token
Garbage == {<<"x">>, <<"n", "u", "l">>}

\* styles without whitespace before or after the whole text
RespacedStyles == {"compact", "colon", "inside"}

\* string bodies with a character outside ASCII, and what follows the string
\* when it is the first element of an array (<<>>: the string is the text)
UnicodeBodies == {<<EACUTE>>, <<"a", EACUTE>>, <<EACUTE, EACUTE>>}

UnicodeTails ==
    {<<>>, <<"]">>, <<",", "1", "]">>, <<SPACE, "1", "]">>, <<",", NEWLINE, "1", "]">>,
     <<",", "]">>}

\* the state in which parse is called with a text
Start(g, text) ==
    /\ json = text
    /\ gen = g
    /\ pc = "parse"
    /\ tokens = <<>>
    /\ errors = <<>>
    /\ line_number = 1
    /\ col_number = 1
    /\ stack = <<>>
    /\ ret = None
    /\ result = NoResult
    /\ reader = NoReader

Init ==
    \/ \E t \in RawTexts(MaxRaw) : Start([family |-> "raw"], t)
    \/ \E t \in Trees, st \in Styles :
          Start([family |-> "tree", tree |-> t, style |-> st], Render(t, st))
    \/ \E t \in OpenTrees, st \in {"compact", "colon"}, c \in BOOLEAN :
          LET r == Render(t, st)
          IN Start([family |-> "unclosed", tree |-> t, style |-> st, comma |-> c],
                   SubSeq(r, 1, Len(r) - 1) \o (IF c THEN <<",">> ELSE <<>>))
    \/ \E l \in SingleLits, p \in Paddings, q \in Paddings :
          Start([family |-> "single", lit |-> l, pre |-> p, post |-> q], p \o l.raw \o q)
    \/ \E t \in BlankTexts(MaxBlank) : Start([family |-> "blank"], t)
    \/ \E k \in 1..MaxCommas :
          Start([family |-> "commas", k |-> k], <<"[">> \o Commas(k) \o <<"]">>)
    \/ \E kd \in {"array", "object"} : \E r \in JunkRuns(kd, MaxJunk) \ {<<>>} :
          Start([family |-> "junk", kind |-> kd, run |-> r], JunkText(kd, r))
    \/ \E d \in Defects, g \in Garbage, first \in BOOLEAN, sep \in {<<SPACE>>, <<NEWLINE>>} :
          Start([family |-> "mixed", defect |-> d, garbage |-> g, first |-> first],
                IF first THEN g \o sep \o d.text ELSE d.text \o sep \o g)
    \/ \E t \in OpenTrees, st \in {"compact", "colon"} :
          LET r == Render(t, st)
          IN Start([family |-> "trailing", tree |-> t, style |-> st],
                   SubSeq(r, 1, Len(r) - 1) \o <<",", r[Len(r)]>>)
    \/ \E b \in UnicodeBodies, tl \in UnicodeTails :
          LET str == <<QUOTE>> \o b \o <<QUOTE>>
          IN Start([family |-> "unicode", body |-> b, tail |-> tl],
                   IF tl = <<>> THEN str ELSE <<"[">> \o str \o tl)
    \/ \E n \in 1..MaxRespaced : \E t \in TreesOfSize(n) :
          \E st \in RespacedStyles, other \in RespacedStyles :
             /\ st # other
             /\ Start([family |-> "respaced", tree |-> t, style |-> st, other |-> other,
                       again |-> Render(t, other), round |-> 1, first |-> NoResult],
                      Render(t, st))

Spec == Init /\ [][Next]_vars

(***************************************************************************)
(* The texts a Reader is built on: at most MaxPieces pieces, or a quoted    *)
(* span of at most MaxSpan pieces followed by ',', or one quoted span of   *)
(* at most MaxSpan punctuation, space, tab and letter characters; and the  *)
(* counts peek and next are called with: 0..MaxCount.                      *)
(***************************************************************************)
MaxPieces == 3
MaxSpan == 2
MaxCount == 2

ReaderPieces ==
    {<<QUOTE>>, <<BACKSLASH, QUOTE>>, <<",">>, <<"1">>, <<"x">>,
     <<SPACE>>, <<TAB>>, <<NEWLINE>>, <<CR>>, <<FORMFEED>>}

RECURSIVE ReaderTexts(_)
ReaderTexts(n) ==
    IF n = 0 THEN {<<>>}
    ELSE LET shorter == ReaderTexts(n - 1)
         IN shorter \cup {t \o p : t \in shorter, p \in ReaderPieces}

QuotedTexts(n) == {<<QUOTE>> \o body \o <<QUOTE, ",">> : body \in ReaderTexts(n)}

\* the characters of a quoted span that neither end nor escape
SpanChars == PUNCTUATIONS \cup {SPACE, TAB, "x"}

RECURSIVE SpanBodies(_)
SpanBodies(n) ==
    IF n = 0 THEN {<<>>}
    ELSE LET shorter == SpanBodies(n - 1)
         IN shorter \cup {Append(b, c) : b \in shorter, c \in SpanChars}

SpanTexts(n) == {<<QUOTE>> \o body \o <<QUOTE>> : body \in SpanBodies(n)}

ReaderInit ==
    /\ json \in ReaderTexts(MaxPieces) \cup QuotedTexts(MaxSpan) \cup SpanTexts(MaxSpan)
    /\ gen = [family |-> "reader"]
    /\ pc = "reader"
    /\ tokens = <<>>
    /\ errors = <<>>
    /\ line_number = 1
    /\ col_number = 1
    /\ stack = <<>>
    /\ ret = None
    /\ result = NoResult
    /\ reader = Reader_new

ReaderStep ==
    \/ \E n \in 0..MaxCount : ReaderPeek(n)
    \/ \E n \in 0..MaxCount : ReaderNext(n)

ReaderSpec == ReaderInit /\ [][ReaderStep]_vars

(***************************************************************************)
(* Properties                                                              *)
(***************************************************************************)
\* the call is over: parse returned (pc = "done") or it never will (pc = "panic")
Terminal == pc \in {"done", "panic"}

\* every lexical unit of the text was recognised as a token
Lexed == try_from_json(json)

LexOK == Lexed.errors = <<>>

\* parse returned after the parser ran
Returned == pc = "done" /\ LexOK

\* a token that is not whitespace remains after the root value
Trailing == \E i \in 1..Len(tokens) : ~token_is_whitespace(tokens[i])

Codes(errs) == [i \in 1..Len(errs) |-> errs[i].code]

Count(errs, code) == Cardinality({i \in 1..Len(errs) : errs[i].code = code})

CountOf(errs, code, arg) ==
    Cardinality({i \in 1..Len(errs) : errs[i].code = code /\ errs[i].arg = arg})

\* C1: the parse of a well-formed text, whatever whitespace is written between
\* its tokens, returns Ok with the reference tree of the text
C1_WellFormedTextIsParsed ==
    (gen.family = "tree" /\ Terminal) => result = Ok(Ref(gen.tree))

\* C2: the parse of a text whose units are all tokens never panics
C2_NoPanic == LexOK => pc # "panic"

\* C3: a returned Ok holds a value and no diagnostic, and nothing was recorded
\* during the call; a returned Err holds no value and at least one diagnostic;
\* whenever a diagnostic was recorded the outcome is Err with the recorded list
C3_OkIffNoDiagnostic ==
    pc = "done" =>
        /\ result.kind \in {"Ok", "Err"}
        /\ result.kind = "Ok" =>
              /\ result.value.some
              /\ result.errors = <<>>
              /\ errors = <<>>
              /\ LexOK
        /\ result.kind = "Err" => ~result.value.some /\ result.errors # <<>>
        /\ errors # <<>> => result = Err(errors)
        /\ ~LexOK => result = Err(Lexed.errors)

C3_Witness ==
    /\ pc = "done"
    /\ ret.some
    /\ ~Trailing
    /\ errors # <<>>
    /\ result = Err(errors)

\* C4 as stated: when a token that is not whitespace remains after the root
\* value, or when no root value was parsed, the returned list holds exactly one
\* EndOfFileExpected and every diagnostic recorded while parsing the root value
C4_EndOfFileExpectedAdded ==
    (Returned /\ (Trailing \/ ~ret.some)) =>
        /\ result.kind = "Err"
        /\ Count(result.errors, "EndOfFileExpected") = 1
        /\ \A i \in 1..Len(errors) : \E j \in 1..Len(result.errors) : result.errors[j] = errors[i]

\* C4: EndOfFileExpected is returned, alone and at the parser's position, when
\* the root value was parsed without a diagnostic and a token that is not
\* whitespace remains; when a diagnostic was recorded, which is the case
\* whenever no root value was parsed, the recorded list is returned as it is,
\* without EndOfFileExpected
C4_EndOfFileExpectedAlone ==
    Returned =>
        /\ (errors = <<>> /\ Trailing) =>
              result = Err(<<Error("EndOfFileExpected", <<>>, line_number, col_number)>>)
        /\ ~ret.some => errors # <<>>
        /\ errors # <<>> =>
              result = Err(errors) /\ Count(result.errors, "EndOfFileExpected") = 0
        /\ (errors = <<>> /\ ~Trailing) => result.kind = "Ok"

C4_Witness ==
    /\ Returned
    /\ ret.some
    /\ errors = <<>>
    /\ Trailing
    /\ Codes(result.errors) = <<"EndOfFileExpected">>

UnescapedQuotes(raw) ==
    {i \in 1..Len(raw) : raw[i] = QUOTE /\ (i = 1 \/ raw[i - 1] # BACKSLASH)}

WellQuoted(raw) == Len(raw) > 1 /\ UnescapedQuotes(raw) = {1, Len(raw)}

\* C6: the parse of one literal (null, true, false, a decimal number, a
\* well-quoted string, [] or {}) between whitespace returns Ok with its value
C6_SingleLiteral ==
    (/\ gen.family = "single"
     /\ gen.lit.kind = "string" => WellQuoted(gen.lit.raw)
     /\ Terminal) => result = Ok(gen.lit.value)

\* C7: the parse of '[', k >= 1 commas and ']' returns Err with k + 1
\* ExpectedToken diagnostics and nothing else, the i-th at the column of the
\* i-th empty slot
C7_CommasOnly ==
    (gen.family = "commas" /\ Terminal) =>
        result = Err([i \in 1..(gen.k + 1) |-> Error("ExpectedToken", <<>>, 1, i + 1)])

C7_Witness ==
    /\ gen.family = "commas"
    /\ gen.k = 2
    /\ pc = "done"
    /\ Codes(result.errors) = <<"ExpectedToken", "ExpectedToken", "ExpectedToken">>

\* C8: the parse of a root array or object of well-formed elements that ends
\* without its closing delimiter, after the last element or after a trailing
\* ',', returns Err with one diagnostic, EndOfFileWhileParsing(delimiter)
C8_UnclosedRoot ==
    (gen.family = "unclosed" /\ Terminal) =>
        /\ result.kind = "Err"
        /\ Len(result.errors) = 1
        /\ result.errors[1].code = "EndOfFileWhileParsing"
        /\ result.errors[1].arg = <<IF gen.tree.g = "arr" THEN "]" ELSE "}">>

\* C9: a run of one or more units that are neither ',' nor the closing
\* delimiter, after an element or a member, is consumed and produces one
\* ExpectedCommaOrEndWhileParsing(delimiter) for the whole run
C9_OneDiagnosticPerRun ==
    (gen.family = "junk" /\ Terminal) =>
        /\ pc = "done"
        /\ CountOf(result.errors, "ExpectedCommaOrEndWhileParsing", <<EndOf(gen.kind)>>) = 1

\* the member position holds a non-string unit followed by ':', or a ':'
KeyMissing(toks) ==
    /\ toks # <<>>
    /\ \/ IsPunct(toks[1], ":")
       \/ toks[1].type # "String" /\ Len(toks) >= 2 /\ IsPunct(toks[2], ":")

\* C10: at a member position that holds a non-string unit followed by ':', or a
\* ':' without a key, the parser records one KeyMustBeAString at the position
\* of the member, consumes up to the ':' and calls parse_value; when that call
\* returns its value is dropped: no member is added and nothing more is recorded
C10_KeyMustBeAString ==
    [][LET w == parse_whitespace(tokens, line_number, col_number) IN
       /\ (pc = "member" /\ KeyMissing(w.tokens)) =>
             /\ pc' = "value"
             /\ errors' = Append(errors, Error("KeyMustBeAString", <<>>, w.line, w.col))
             /\ tokens' = IF Len(w.tokens) >= 2 /\ IsPunct(w.tokens[2], ":")
                            THEN Tail(Tail(w.tokens))
                          ELSE Tail(w.tokens)
             /\ Len(stack') = Len(stack)
             /\ stack'[Len(stack)].phase = "discard"
             /\ stack'[Len(stack)].members = Top.members
       /\ (pc = "ret" /\ stack # <<>> /\ Top.phase = "discard") =>
             /\ pc' = "until"
             /\ errors' = errors
             /\ Len(stack') = Len(stack)
             /\ stack'[Len(stack)].members = Top.members]_vars

C10_Witness ==
    /\ pc = "ret"
    /\ stack # <<>>
    /\ Top.phase = "discard"
    /\ ret.some
    /\ Codes(errors) = <<"KeyMustBeAString">>

\* C11: at a member position that holds a string unit not followed by ':', the
\* parser records one ExpectedColon at the position of the string, consumes
\* the string unit only, and leaves the members of the object as they are
C11_ExpectedColon ==
    [][LET w == parse_whitespace(tokens, line_number, col_number) IN
       (/\ pc = "member"
        /\ w.tokens # <<>>
        /\ w.tokens[1].type = "String"
        /\ ~(Len(w.tokens) >= 2 /\ IsPunct(w.tokens[2], ":"))) =>
             /\ pc' = "until"
             /\ errors' = Append(errors, Error("ExpectedColon", <<>>, w.line, w.col))
             /\ tokens' = Tail(w.tokens)
             /\ col_number' = w.col + token_len(w.tokens[1])
             /\ Len(stack') = Len(stack)
             /\ stack'[Len(stack)].members = Top.members]_vars

C11_Witness ==
    /\ pc = "until"
    /\ Len(stack) = 1
    /\ Top.kind = "object"
    /\ Top.members = EmptyMap
    /\ Codes(errors) = <<"ExpectedColon">>
    /\ tokens # <<>>
    /\ IsPunct(tokens[1], "}")

\* C12: the list returned for a text that has a unit that is no token and a
\* grammatical defect holds the diagnostic of the unit and the diagnostic of
\* the defect
C12_BothKindsReturned ==
    (gen.family = "mixed" /\ Terminal) =>
        /\ result.kind = "Err"
        /\ Count(result.errors, "ExpectedToken") >= 1
        /\ Count(result.errors, gen.defect.code) >= 1

\* the line and column of the first character of the i-th unit of a text
UnitStart(strs, i) ==
    LET prefix == Concat(SubSeq(strs, 1, i - 1))
        newlines == {k \in 1..Len(prefix) : prefix[k] = NEWLINE}
        last == IF newlines = {} THEN 0
                ELSE CHOOSE k \in newlines : \A j \in newlines : j <= k
    IN [line |-> 1 + Cardinality(newlines), col |-> Len(prefix) - last + 1]

\* one ExpectedToken at the start of each unit that is no token, in source order
ExpectedLexicalErrors(strs) ==
    LET bad == SelectSeq([i \in 1..Len(strs) |-> i],
                         LAMBDA i : try_from_token(strs[i]) = NoToken)
    IN [k \in 1..Len(bad) |->
          Error("ExpectedToken", <<>>, UnitStart(strs, bad[k]).line,
                UnitStart(strs, bad[k]).col)]

\* C13: each unit that is no token is reported as an ExpectedToken at the line
\* and column of the first character of the unit, on every line of the text
C13_LexicalErrorAtUnitStart ==
    (pc = "done" /\ ~LexOK) =>
        result.errors = ExpectedLexicalErrors(tokenize_into_strings(json))

\* C14: parse_string, called by parse_value on a String unit, returns the unit
\* without its first and last character when the unit is well-quoted, and
\* otherwise records one ExpectedDoubleQuote at the position of the unit and
\* returns no value; the unit is consumed in both cases
C14_ParseString ==
    [][LET w == parse_whitespace(tokens, line_number, col_number) IN
       (pc = "value" /\ w.tokens # <<>> /\ w.tokens[1].type = "String") =>
          LET raw == w.tokens[1].raw IN
          /\ pc' = "ret"
          /\ tokens' = Tail(w.tokens)
          /\ IF WellQuoted(raw)
               THEN /\ ret' = Some(VString(SubSeq(raw, 2, Len(raw) - 1)))
                    /\ errors' = errors
               ELSE /\ ret' = None
                    /\ errors' = Append(errors, Error("ExpectedDoubleQuote", <<>>,
                                                      w.line, w.col))]_vars

\* the place of pc in one round of the parser
Rank(p) ==
    CASE p \in {"array_elements", "object_members"} -> 13
      [] p \in {"element", "member"} -> 7
      [] p = "value" -> 6
      [] p \in {"array", "object"} -> 5
      [] p = "ret" -> 4
      [] p = "until" -> 3
      [] p = "separator" -> 2
      [] OTHER -> 0

\* a bound of the steps that remain: a consumed token pays for one round, the
\* end of a loop pays for the return to the loop around it
Measure(p, toks, stk) == 14 * Len(toks) + 5 * Len(stk) + Rank(p)

\* C16: parse terminates: every step of the parser after the tokenization
\* decreases a measure bounded by the number of tokens; a loop goes to its next
\* iteration, and a nested value is parsed, only after a token was consumed
C16_Terminates ==
    [][pc \notin {"parse", "done", "panic"} =>
          /\ Measure(pc', tokens', stack') < Measure(pc, tokens, stack)
          /\ Len(tokens') <= Len(tokens)
          /\ (pc = "separator" /\ pc' \in {"element", "member"}) => Len(tokens') < Len(tokens)
          /\ (pc \in {"until", "ret", "member"} /\ pc' = "value") => Len(tokens') < Len(tokens)
          /\ (pc \in {"array", "object"} /\ pc' \in {"array_elements", "object_members"})
                => Len(tokens') < Len(tokens)]_vars

C16_Witness ==
    /\ pc = "done"
    /\ result.kind = "Ok"
    /\ result.value.v.type = "Array"
    /\ Len(result.value.v.elements) = 2
    /\ result.value.v.elements[2].type = "Array"

(***************************************************************************)
(* Properties of the Reader                                                *)
(***************************************************************************)
IsPrefix(a, b) == Len(a) <= Len(b) /\ a = SubSeq(b, 1, Len(a))

\* the Reader has taken every character of the text
Exhausted == reader.chars > Len(json)

\* what one call of next for more results than the text has characters
\* returns on a fresh Reader
ReaderUnits(text) == read_in(text, Reader_new, Len(text) + 1).buffer

\* everything the Reader has classified so far, in order
Classified == reader.delivered \o reader.buffer

\* C17: no call of peek or next ends in a panic: neither the panic! of
\* read_whitespace nor one of the two assert! of read_in is reached.
C17_ReaderNeverPanics == pc = "reader" => reader.panic = "none"

\* the assert! of read_in hold in every call (only read_whitespace panics)
ReadInAssertsHold == pc = "reader" => reader.panic \in {"none", "read_whitespace"}

\* C15: the Reader is a FIFO cursor over ReaderUnits(json): every call
\* returns; what was handed out followed by what is buffered is a prefix of
\* that sequence, all of it once the text is exhausted; a call that returns
\* fewer results than asked for has returned all that remained; peek(n)
\* returns what next(n) called right after it returns, and hands out nothing.
C15_FifoCursor ==
    /\ [](pc = "reader" =>
            /\ reader.panic = "none"
            /\ IsPrefix(Classified, ReaderUnits(json))
            /\ Exhausted => Classified = ReaderUnits(json)
            /\ Len(reader.last.out) <= reader.last.n
            /\ (reader.last.op # "new" /\ Len(reader.last.out) < reader.last.n) =>
                  /\ Exhausted
                  /\ reader.buffer = IF reader.last.op = "peek" THEN reader.last.out
                                     ELSE <<>>
            /\ reader.last.op = "peek" =>
                  /\ Next_(json, reader, reader.last.n).panic = "none"
                  /\ Next_(json, reader, reader.last.n).last.out = reader.last.out)
    /\ [][(pc = "reader" /\ reader'.last.op = "peek") =>
             /\ reader'.delivered = reader.delivered
             /\ \A n \in 0..MaxCount :
                  Next_(json, reader', n).last.out = Next_(json, reader, n).last.out]_vars

\* the number of '\n' / '\r' among the first k characters of s
Breaks(s, k) == Cardinality({i \in 1..k : s[i] \in {NEWLINE, CR}})

\* the index of the last '\n' / '\r' among the first k characters of s, 0 if none
RECURSIVE LastBreak(_, _)
LastBreak(s, k) ==
    IF k = 0 THEN 0 ELSE IF s[k] \in {NEWLINE, CR} THEN k ELSE LastBreak(s, k - 1)

\* C18: after any call, the position create_error reports is: line = 1 + the
\* number of newline / carriage-return characters consumed, column = 1 + the
\* number of characters consumed after the last of them.
C18_PositionTracking ==
    (pc = "reader" /\ reader.panic = "none") =>
        LET k == reader.chars - 1
        IN create_error(reader, "ExpectedToken") =
             Error("ExpectedToken", <<>>, 1 + Breaks(json, k), 1 + k - LastBreak(json, k))

\* a result without its position: the token, NoToken for an Err entry
Shape(entry) == IF entry.ok THEN entry.token ELSE NoToken

Shapes(entries) == [i \in 1..Len(entries) |-> Shape(entries[i])]

\* a unit of tokenize_into_strings made of whitespace outside a quoted span
IsBlankUnit(unit) == char_is_whitespace(unit[1])

IsWordUnit(unit) == ~IsBlankUnit(unit)

\* the units of a text in which backslash-quote inside a quoted span is one
\* escaped quote, whitespace left out, each classified by try_from_token
EscapedUnits(text) ==
    LET words == SelectSeq(tokenize_into_strings(text), IsWordUnit)
    IN [i \in 1..Len(words) |-> try_from_token(words[i])]

\* C19: the Reader takes a backslash followed by '"' inside a quoted span as
\* part of the span: once a text is read, its units are the units in which
\* every such pair is kept inside the String unit it stands in (so that the
\* ',' after a quoted span holding an escaped quote is a Punctuation unit).
C19_EscapedQuote ==
    (pc = "reader" /\ reader.panic = "none" /\ Exhausted) =>
        Shapes(Classified) = EscapedUnits(json)

\* the whitespace units of a sequence of results
IsBlankEntry(entry) == entry.ok /\ token_is_whitespace(entry.token)

\* the whitespace units of a text: Whitespace(count) for a run of ' ' / '\t'
\* outside a quoted span, one unit for each '\n' / '\r' outside a quoted span
WhitespaceUnits(text) ==
    LET blanks == SelectSeq(tokenize_into_strings(text), IsBlankUnit)
    IN [i \in 1..Len(blanks) |->
          ROk(IF blanks[i][1] = SPACE THEN TWhitespace(Len(blanks[i])) ELSE TNewLine)]

IsSpan(text) ==
    /\ Len(text) >= 2
    /\ text[1] = QUOTE
    /\ text[Len(text)] = QUOTE
    /\ \A i \in 2..(Len(text) - 1) : text[i] \in SpanChars

\* C21: a text that is one quoted span is one String unit whose raw text is
\* the whole text, for tokenize_into_strings, for Token::try_from_json and
\* for the Reader, whatever punctuation, spaces and tabs the span holds.
C21_SpanIsOneUnit ==
    (pc = "reader" /\ IsSpan(json)) =>
        /\ tokenize_into_strings(json) = <<json>>
        /\ try_from_json(json) = [tokens |-> <<TString(json)>>, errors |-> <<>>]
        /\ reader.panic = "none"
        /\ IsPrefix(Classified, <<ROk(TString(json))>>)
        /\ Exhausted => Classified = <<ROk(TString(json))>>
        /\ (reader.last.op = "next" /\ reader.last.n >= 1 /\ reader.delivered = reader.last.out)
              => reader.last.out = <<ROk(TString(json))>>

\* next has returned a span that holds a punctuation and a blank character
C21_Witness ==
    /\ pc = "reader"
    /\ IsSpan(json)
    /\ \E i \in 2..(Len(json) - 1) : is_punctuation(json[i])
    /\ \E i \in 2..(Len(json) - 1) : json[i] \in {SPACE, TAB}
    /\ reader.last.op = "next"
    /\ reader.last.out = <<ROk(TString(json))>>

\* parse_value is about to look at ',', '}' or ']'
AtStrayPunctuation ==
    LET w == parse_whitespace(tokens, line_number, col_number)
    IN /\ pc = "value"
       /\ w.tokens # <<>>
       /\ IsPunct(w.tokens[1], ",") \/ IsPunct(w.tokens[1], "}") \/ IsPunct(w.tokens[1], "]")

C23_TrailingComma ==
    [][LET w == parse_whitespace(tokens, line_number, col_number)
       IN (/\ pc = "separator"
           /\ Len(w.tokens) >= 2
           /\ IsPunct(w.tokens[1], ",")
           /\ IsPunct(w.tokens[2], EndOf(Top.kind))) =>
                /\ pc' = "ret"
                /\ errors' = Append(errors, Error("ExpectedToken", <<>>, w.line, w.col + 1))
                /\ tokens' = Tail(Tail(w.tokens))
                /\ line_number' = w.line
                /\ col_number' = w.col + 2
                /\ stack' = Pop
                /\ ret' = Some(IF Top.kind = "array" THEN VArray(Top.elements)
                               ELSE VObject(Top.members))]_vars

\* an array of one element has been closed by ',' ']'
C23_Witness ==
    /\ gen.family = "trailing"
    /\ pc = "ret"
    /\ stack = <<>>
    /\ tokens = <<>>
    /\ ret.some
    /\ ret.v.type = "Array"
    /\ Len(ret.v.elements) = 1
    /\ Codes(errors) = <<"ExpectedToken">>

\* the sum of Token::len over a sequence of tokens
RECURSIVE SumLen(_)
SumLen(toks) == IF toks = <<>> THEN 0 ELSE token_len(Head(toks)) + SumLen(Tail(toks))

\* the column that adding Token::len gives for the token after the first k:
\* 1 + the lengths of the tokens that follow the last NewLine among them
RECURSIVE ColumnByLen(_, _)
ColumnByLen(toks, k) ==
    IF k = 0 \/ toks[k].type = "NewLine" THEN 1
    ELSE ColumnByLen(toks, k - 1) + token_len(toks[k])

\* C24: when Token::try_from_json returns Ok, each token's Token::len is the
\* number of characters of the unit it was made from, the lengths add up to
\* the length of the text, and the column obtained by adding the lengths is
\* the column of the first character of the next unit.
C24_LenIsSourceLength ==
    (pc # "reader" /\ LexOK) =>
        LET units == tokenize_into_strings(json)
            toks == Lexed.tokens
        IN /\ Len(toks) = Len(units)
           /\ \A i \in 1..Len(toks) : token_len(toks[i]) = Len(units[i])
           /\ SumLen(toks) = Len(json)
           /\ \A i \in 1..Len(toks) : ColumnByLen(toks, i - 1) = UnitStart(units, i).col

\* the object written by the generator holds one key in several members
HasDuplicateKey(t) ==
    /\ t.g = "obj"
    /\ \E i, j \in 1..Len(t.items) : i < j /\ t.items[i].key = t.items[j].key

\* C25: the parse of a well-formed object text in which a key is written in
\* several members returns Ok(Object) where the key is held once, with the
\* value of its last member; nothing is recorded for the duplicate.
C25_LastDuplicateWins ==
    (gen.family = "tree" /\ HasDuplicateKey(gen.tree) /\ Terminal) =>
        /\ result = Ok(Ref(gen.tree))
        /\ errors = <<>>

\* the JSON grammar on a sequence of tokens without whitespace:
\*   value := null | bool | number | string | '[' values separated by ',' ']'
\*          | '{' string ':' value pairs separated by ',' '}'
\* ValueEnd is the index that follows the value that starts at i, 0 when no
\* value starts there; a string is a unit between two unescaped quotes
RECURSIVE ValueEnd(_, _), ElementsEnd(_, _), MembersEnd(_, _)
ValueEnd(toks, i) ==
    IF i > Len(toks) THEN 0
    ELSE LET t == toks[i] IN
      IF t.type \in {"Null", "Bool", "Number"} THEN i + 1
      ELSE IF t.type = "String" THEN IF WellQuoted(t.raw) THEN i + 1 ELSE 0
      ELSE IF IsPunct(t, "[")
        THEN IF i + 1 <= Len(toks) /\ IsPunct(toks[i + 1], "]") THEN i + 2
             ELSE ElementsEnd(toks, i + 1)
      ELSE IF IsPunct(t, "{")
        THEN IF i + 1 <= Len(toks) /\ IsPunct(toks[i + 1], "}") THEN i + 2
             ELSE MembersEnd(toks, i + 1)
      ELSE 0

ElementsEnd(toks, i) ==
    LET e == ValueEnd(toks, i)
    IN IF e = 0 \/ e > Len(toks) THEN 0
       ELSE IF IsPunct(toks[e], ",") THEN ElementsEnd(toks, e + 1)
       ELSE IF IsPunct(toks[e], "]") THEN e + 1
       ELSE 0

MembersEnd(toks, i) ==
    IF i + 1 > Len(toks) THEN 0
    ELSE IF ~(toks[i].type = "String" /\ WellQuoted(toks[i].raw) /\ IsPunct(toks[i + 1], ":"))
      THEN 0
    ELSE LET e == ValueEnd(toks, i + 2)
         IN IF e = 0 \/ e > Len(toks) THEN 0
            ELSE IF IsPunct(toks[e], ",") THEN MembersEnd(toks, e + 1)
            ELSE IF IsPunct(toks[e], "}") THEN e + 1
            ELSE 0

IsWord(t) == ~token_is_whitespace(t)

\* the text is one value of the grammar, between whitespace
WellFormed(text) ==
    LET lexed == try_from_json(text)
        words == SelectSeq(lexed.tokens, IsWord)
    IN lexed.errors = <<>> /\ ValueEnd(words, 1) = Len(words) + 1

\* C26: parse returns Ok only for a text whose tokens, whitespace left out,
\* are one value of the JSON grammar with every string between two unescaped
\* quotes.
C26_OkOnlyIfWellFormed ==
    (pc = "done" /\ result.kind = "Ok") => WellFormed(json)

\* what a caller of parse sees, positions left out
Outcome(r) == [kind |-> r.kind, value |-> r.value, codes |-> Codes(r.errors)]

\* C27: two texts of the same value that differ only by whitespace after '['
\* or '{', before ']' or '}', inside an empty pair, or after ',' and ':' have
\* the same outcome: Ok or Err alike, the same Value, the same sequence of
\* diagnostic codes.
C27_WhitespaceInsensitive ==
    (gen.family = "respaced" /\ gen.round = 2 /\ Terminal) =>
        Outcome(result) = Outcome(gen.first)

\* the number of tokens the parser has consumed: tokens is what is left of
\* the tokens of the text
Consumed == Len(Lexed.tokens) - Len(tokens)

\* C28: when a production has returned, the cursor is at the position of the
\* first token that is not consumed: line_number is 1 + the number of NewLine
\* tokens consumed, col_number is 1 + the sum of Token::len of the tokens
\* consumed since the last of them.
C28_CursorPosition ==
    (LexOK /\ pc \in {"ret", "separator", "done"}) =>
        /\ tokens = SubSeq(Lexed.tokens, Consumed + 1, Len(Lexed.tokens))
        /\ line_number =
             1 + Cardinality({i \in 1..Consumed : Lexed.tokens[i].type = "NewLine"})
        /\ col_number = ColumnByLen(Lexed.tokens, Consumed)

\* C29: when parse_sequence_separator looks at the tokens, after its
\* whitespace skip, they are empty or start with ',' or with the closing
\* delimiter of the running loop; so the arm of NewLine (a panic) and the arm
\* of any other token (EndOfFileWhileParsing, nothing consumed, the loop goes
\* on) are not taken: the loop goes on only after a ',' was consumed.
C29_SeparatorSeesCommaOrEnd ==
    pc = "separator" =>
        LET w == parse_whitespace(tokens, line_number, col_number)
            end == EndOf(Top.kind)
            a == sequence_separator(w.tokens, errors, w.line, w.col, end)
        IN /\ w.tokens = tokens
           /\ tokens = <<>> \/ IsPunct(tokens[1], ",") \/ IsPunct(tokens[1], end)
           /\ ~a.panic
           /\ ~a.reached_end => (IsPunct(tokens[1], ",") /\ a.tokens = Tail(tokens)
                                  /\ a.errors = errors)

\* parse_sequence_separator is called after a run of units was skipped up to
\* the closing delimiter
C29_Witness ==
    /\ pc = "separator"
    /\ tokens # <<>>
    /\ IsPunct(tokens[1], EndOf(Top.kind))
    /\ errors # <<>>
    /\ errors[Len(errors)].code = "ExpectedCommaOrEndWhileParsing"

====
